---- MODULE Spec2Model ----
(***************************************************************************)
(* A model of server.py of sbc-mini: the price token parser, the name and  *)
(* page extractors, the per-rating aggregator, the multi-rating            *)
(* orchestrator and the /players_flat handler with its process-wide cache. *)
(*                                                                         *)
(* Text is modelled as sequences of one-character strings, so that the     *)
(* parser's regular expression and number conversion are computed, not     *)
(* assumed.  A card (one <a href="/players/..."> block) is a record of the *)
(* pieces the code reads from it: whether the coin icon is in it, the text *)
(* pieces a price pattern can match, its alt attributes and its href slug. *)
(***************************************************************************)
EXTENDS Integers, Sequences, FiniteSets, TLC

VARIABLES
    CACHE,       \* CACHE = {"ts": ..., "data": {...}}            (line 13)
    now,         \* the value time.time() returns
    scrapedAt,   \* history: per bucket key, the `now` of the refresh that wrote it
    pc,          \* "idle" for the server; "call" and "returned" for a direct call
    want,        \* the ratings asked for: parse_ratings(ratings)
    force,       \* players_flat: the force query parameter
    x_api_key,   \* players_flat: the x-api-key header (None when missing)
    resp,        \* the last response of players_flat
    fetched,     \* history: the page fetches the last request issued
    seen,        \* history: the records of every list a scrape function
                 \* returned during the last request
    rating,      \* scrape_futgg_for_rating: rating
    max_pages,   \* scrape_futgg_for_rating: max_pages
    min_needed,  \* scrape_futgg_for_rating: min_needed
    world,       \* what get_html does on page 1, 2, ... of one rating
    agg_ret,     \* what scrape_futgg_for_rating did
    worlds,      \* scrape_many: the world of each of its calls
    many_ret,    \* what scrape_many did
    html,        \* scrape_futgg_one_page: the markup get_html returned
    page_items,  \* what scrape_futgg_one_page returned
    txt,         \* parse_price_token: its argument
    price_val    \* parse_price_token: its result

vars == <<CACHE, now, scrapedAt, pc, want, force, x_api_key, resp, fetched,
          seen, rating, max_pages, min_needed, world, agg_ret, worlds,
          many_ret, html, page_items, txt, price_val>>

serverVars == <<CACHE, now, scrapedAt, force, x_api_key, resp, fetched, seen>>
aggVars == <<rating, max_pages, min_needed, world, agg_ret>>
manyVars == <<worlds, many_ret>>
pageVars == <<html, page_items>>
parseVars == <<txt, price_val>>

None == "None"

(***************************************************************************)
(* Characters and strings                                                  *)
(***************************************************************************)
\* the characters used, in code point order (str comparison compares code points)
CharOrder ==
    << " ", ",", "-", ".", "/",
       "0", "1", "2", "3", "4", "5", "6", "7", "8", "9",
       "A", "B", "C", "D", "E", "F", "G", "H", "I", "J", "K", "L", "M",
       "N", "O", "P", "Q", "R", "S", "T", "U", "V", "W", "X", "Y", "Z",
       "a", "b", "c", "d", "e", "f", "g", "h", "i", "j", "k", "l", "m",
       "n", "o", "p", "q", "r", "s", "t", "u", "v", "w", "x", "y", "z",
       "U+2014" >>

Ord(c) == CHOOSE k \in 1..Len(CharOrder) : CharOrder[k] = c

Digits == {"0", "1", "2", "3", "4", "5", "6", "7", "8", "9"}
UpperLetters == {CharOrder[k] : k \in 16..41}
LowerLetters == {CharOrder[k] : k \in 42..67}
\* \w of a regular expression, on this character set
WordChars == Digits \cup UpperLetters \cup LowerLetters

DigitVal(c) == Ord(c) - Ord("0")

\* str.lower() and str.upper() on one character
LowerChar(c) == IF c \in UpperLetters THEN CharOrder[Ord(c) + 26] ELSE c
UpperChar(c) == IF c \in LowerLetters THEN CharOrder[Ord(c) - 26] ELSE c

Lower(s) == [k \in 1..Len(s) |-> LowerChar(s[k])]

RECURSIVE Strip(_)
\* str.strip(): blanks removed at both ends
Strip(s) ==
    IF s = <<>> THEN s
    ELSE IF Head(s) = " " THEN Strip(Tail(s))
    ELSE IF s[Len(s)] = " " THEN Strip(SubSeq(s, 1, Len(s) - 1))
    ELSE s

\* str.replace(" ", "")
RemoveSpaces(s) == SelectSeq(s, LAMBDA c : c # " ")

\* `pat in s`
Contains(s, pat) ==
    \E k \in 1..(Len(s) - Len(pat) + 1) : SubSeq(s, k, k + Len(pat) - 1) = pat

\* int() of a run of digits
RECURSIVE DigitsToInt(_)
DigitsToInt(s) ==
    IF s = <<>> THEN 0
    ELSE 10 * DigitsToInt(SubSeq(s, 1, Len(s) - 1)) + DigitVal(s[Len(s)])

RECURSIVE Pow10(_)
Pow10(n) == IF n = 0 THEN 1 ELSE 10 * Pow10(n - 1)

\* the length of the longest run of digits of s that starts at position k
RECURSIVE DigitRun(_, _)
DigitRun(s, k) ==
    IF k <= Len(s) /\ s[k] \in Digits THEN 1 + DigitRun(s, k + 1) ELSE 0

(***************************************************************************)
(* parse_price_token                                                       *)
(***************************************************************************)
\* the markers of line 71: "extinct", "n/a", the em dash, "-", "unavailable"
\* the one character U+2014, which the module's character set cannot hold
EmDash == "U+2014"

BadMarkers ==
    { <<"e", "x", "t", "i", "n", "c", "t">>,
      <<"n", "/", "a">>,
      <<EmDash>>,
      <<"-">>,
      <<"u", "n", "a", "v", "a", "i", "l", "a", "b", "l", "e">> }

\* PRICE_TOKEN.search(t): the leftmost match of (\d+(?:[.,]\d+)?)([kKmM]?),
\* as [matched, int |-> group 1 up to the separator, frac |-> its digits after
\* the separator, suf |-> group 2]; matched is FALSE when t holds no digit.
PRICE_TOKEN_search(t) ==
    IF \A k \in 1..Len(t) : t[k] \notin Digits
    THEN [matched |-> FALSE, int |-> <<>>, frac |-> <<>>, suf |-> ""]
    ELSE
      LET s == CHOOSE k \in 1..Len(t) :
                   /\ t[k] \in Digits
                   /\ \A j \in 1..(k - 1) : t[j] \notin Digits
          n1 == DigitRun(t, s)
          e1 == s + n1                       \* position after \d+
          hasFrac == /\ e1 <= Len(t)
                     /\ t[e1] \in {".", ","}
                     /\ DigitRun(t, e1 + 1) > 0
          n2 == IF hasFrac THEN DigitRun(t, e1 + 1) ELSE 0
          e2 == IF hasFrac THEN e1 + 1 + n2 ELSE e1
          suf == IF e2 <= Len(t) /\ t[e2] \in {"k", "K", "m", "M"}
                 THEN t[e2] ELSE ""
      IN  [matched |-> TRUE,
           int |-> SubSeq(t, s, e1 - 1),
           frac |-> IF hasFrac THEN SubSeq(t, e1 + 1, e1 + n2) ELSE <<>>,
           suf |-> suf]

\* round(): to the nearest integer, a tie to the even one.  num / den is the
\* exact value; on the tokens used here the float the code computes rounds to
\* the same integer.
RoundHalfEven(num, den) ==
    LET q == num \div den
        r == num % den
    IN  IF 2 * r < den THEN q
        ELSE IF 2 * r > den THEN q + 1
        ELSE IF q % 2 = 0 THEN q ELSE q + 1

parse_price_token(s) ==
    LET t == Lower(Strip(s))
    IN  IF t = <<>> \/ \E bad \in BadMarkers : Contains(t, bad) THEN 0
        ELSE
          LET u == RemoveSpaces(t)
              m == PRICE_TOKEN_search(u)
          IN  IF ~m.matched THEN 0
              ELSE
                LET \* float(m.group(1).replace(",", "."))
                    num == DigitsToInt(m.int \o m.frac)
                    den == Pow10(Len(m.frac))
                    suf == IF m.suf = "" THEN "" ELSE LowerChar(m.suf)
                    mult == IF suf = "k" THEN 1000
                            ELSE IF suf = "m" THEN 1000000 ELSE 1
                IN  RoundHalfEven(num * mult, den)

(***************************************************************************)
(* extract_name_from_html                                                  *)
(***************************************************************************)
StartsWith(s, pre) == Len(s) >= Len(pre) /\ SubSeq(s, 1, Len(pre)) = pre

\* the captions of line 87: "coin", "sp", "sbc"
Captions == { <<"c", "o", "i", "n">>, <<"s", "p">>, <<"s", "b", "c">> }

\* alt.split(" - ")[0]
FirstSegment(alt) ==
    LET sep == <<" ", "-", " ">>
        at(k) == SubSeq(alt, k, k + 2) = sep
        hits == {k \in 1..(Len(alt) - 2) : at(k)}
    IN  IF hits = {} THEN alt
        ELSE SubSeq(alt, 1, (CHOOSE k \in hits : \A j \in hits : k <= j) - 1)

\* " ".join(w.capitalize() for w in slug.split("-")), on a slug of [a-z0-9-]
CapitalizeSlug(slug) ==
    [k \in 1..Len(slug) |->
        IF slug[k] = "-" THEN " "
        ELSE IF k = 1 \/ slug[k - 1] = "-" THEN UpperChar(slug[k])
        ELSE slug[k]]

\* A card gives its alt attributes in document order (card.alts) and the
\* slug of /players/<id>-<slug>/ (card.slug, <<>> when the href has none).
\* The result <<>> stands for None and for "": the caller tests `not name`.
extract_name_from_html(card) ==
    LET good(k) == /\ card.alts[k] # <<>>
                   /\ \A c \in Captions : ~StartsWith(Lower(card.alts[k]), c)
        hits == {k \in 1..Len(card.alts) : good(k)}
    IN  IF hits # {}
        THEN Strip(FirstSegment(card.alts[CHOOSE k \in hits : \A j \in hits : k <= j]))
        ELSE IF card.slug # <<>> THEN CapitalizeSlug(card.slug)
        ELSE <<>>

(***************************************************************************)
(* The two price patterns of scrape_futgg_one_page (lines 106-107)         *)
(***************************************************************************)
\* where a match of (\d+(?:\.\d+)?[kKmM]) that starts at s ends; 0: no match
CompactEndAt(t, s) ==
    IF t[s] \notin Digits THEN 0
    ELSE
      LET e1 == s + DigitRun(t, s)
          n2 == IF e1 <= Len(t) /\ t[e1] = "." THEN DigitRun(t, e1 + 1) ELSE 0
          e2 == e1 + 1 + n2
      IN  IF n2 > 0 /\ e2 <= Len(t) /\ t[e2] \in {"k", "K", "m", "M"} THEN e2
          ELSE IF e1 <= Len(t) /\ t[e1] \in {"k", "K", "m", "M"} THEN e1
          ELSE 0

\* the number of groups (?:,\d{3}) that follow one another from position e
RECURSIVE GroupCount(_, _)
GroupCount(t, e) ==
    IF /\ e + 3 <= Len(t)
       /\ t[e] = ","
       /\ \A k \in (e + 1)..(e + 3) : t[k] \in Digits
    THEN 1 + GroupCount(t, e + 4)
    ELSE 0

\* where a match of \b\d{1,3}(?:,\d{3})+\b that starts at s ends; 0: no match
GroupedEndAt(t, s) ==
    IF t[s] \notin Digits \/ (s > 1 /\ t[s - 1] \in WordChars) THEN 0
    ELSE
      LET n == DigitRun(t, s)
          e == s + n
          g == GroupCount(t, e)
          boundary(k) == k > Len(t) \/ t[k] \notin WordChars
      IN  IF n > 3 \/ g = 0 THEN 0
          ELSE IF boundary(e + 4 * g) THEN e + 4 * g - 1
          ELSE IF g >= 2 THEN e + 4 * (g - 1) - 1
          ELSE 0

\* re.search(pattern, block).group(0), <<>> when there is no match
SearchBy(t, EndAt(_, _)) ==
    LET hits == {s \in 1..Len(t) : EndAt(t, s) > 0}
    IN  IF hits = {} THEN <<>>
        ELSE LET s == CHOOSE k \in hits : \A j \in hits : k <= j
             IN  SubSeq(t, s, EndAt(t, s))

\* pm of lines 106-107: the compact token, or else the grouped one
PriceMatch(block) ==
    LET c == SearchBy(block, CompactEndAt)
    IN  IF c # <<>> THEN c ELSE SearchBy(block, GroupedEndAt)

(***************************************************************************)
(* Sorting: list.sort(key=...) is stable                                   *)
(***************************************************************************)
\* the one element of a set: Only({F(v) : v \in {e}}) is F(e) with e
\* evaluated once
Only(S) == CHOOSE x \in S : TRUE

\* x put before the first of the places `later`, those of the elements that
\* sort strictly after it, or at the end when there is none
InsertBefore(sorted, x, later) ==
    LET at == IF later = {} THEN Len(sorted) + 1
              ELSE CHOOSE k \in later : \A j \in later : k <= j
    IN  SubSeq(sorted, 1, at - 1) \o <<x>> \o SubSeq(sorted, at, Len(sorted))

\* variant of the key order in which equal prices count as before
PriceNotAfter(a, b) == a.price <= b.price

\* key=lambda x: x["price"]
PriceBefore(a, b) == a.price < b.price

\* the elements inserted one by one, in their order in s
RECURSIVE SortByPrice(_)
SortByPrice(s) ==
    IF s = <<>> THEN <<>>
    ELSE Only({ InsertBefore(sorted, s[Len(s)],
                             {k \in 1..Len(sorted) : PriceBefore(s[Len(s)], sorted[k])}) :
                sorted \in {SortByPrice(SubSeq(s, 1, Len(s) - 1))} })

(***************************************************************************)
(* scrape_futgg_one_page, from the markup get_html returned                *)
(***************************************************************************)
\* lines 104-113: whether the loop appends the card, and what it appends
CardPrice(card) ==
    LET pm == PriceMatch(card.text)
    IN  IF pm # <<>> THEN parse_price_token(pm) ELSE 0

\* variant of the card filter without the test of line 109
CardAcceptedAnyPrice(card) ==
    /\ card.coin
    /\ extract_name_from_html(card) # <<>>

\* lines 102-113: a card yields a record
CardAccepted(card) ==
    /\ card.coin
    /\ CardPrice(card) > 0
    /\ extract_name_from_html(card) # <<>>

CardItem(card) == [name |-> extract_name_from_html(card), price |-> CardPrice(card)]

\* the k-th smallest element of a set of numbers
Nth(K, k) == CHOOSE x \in K : Cardinality({y \in K : y < x}) = k - 1

\* lines 102-114
PageItems(markup) ==
    LET K == {k \in 1..Len(markup) : CardAccepted(markup[k])}
    IN  [n \in 1..Cardinality(K) |-> CardItem(markup[Nth(K, n)])]

\* lines 117-121: the first record of every (name, price) key
UniqOf(items) ==
    LET K == {k \in 1..Len(items) :
                \A j \in 1..(k - 1) :
                    <<items[j].name, items[j].price>> # <<items[k].name, items[k].price>>}
    IN  [n \in 1..Cardinality(K) |-> items[Nth(K, n)]]

\* variant of lines 117-121 that keeps every record
KeepAll(items) == items

Uniq(items) == Only({UniqOf(v) : v \in {items \o <<>>}})

scrape_futgg_one_page(markup) == SortByPrice(Uniq(PageItems(markup)))

(***************************************************************************)
(* Configuration (lines 11-12) and the defaults of line 125                *)
(***************************************************************************)
APP_TOKEN == "change-me"
MAX_AGE_SECONDS == 21600
DEFAULT_MAX_PAGES == 3
DEFAULT_MIN_NEEDED == 25

(***************************************************************************)
(* The pages the source may serve                                          *)
(***************************************************************************)
Card(coin, text, alts, slug) ==
    [coin |-> coin, text |-> text, alts |-> alts, slug |-> slug]

AltCoin == <<"C", "o", "i", "n">>
AltA == <<"A", " ", "-", " ", "8", "4">>
AltZ == <<" ", "Z">>

cA1 == Card(TRUE, <<"1", "k">>, <<AltCoin, AltA>>, <<"a">>)
cA2 == Card(TRUE, <<"2", "K">>, <<AltA>>, <<>>)
cZ1 == Card(TRUE, <<"8", "4", " ", "1", ".", "0", "k">>, <<AltZ>>, <<>>)
cZ0 == Card(TRUE, <<"0", "k">>, <<AltZ>>, <<>>)
cB12 == Card(TRUE, <<"1", "2", ",", "5", "0", "0">>, <<AltCoin>>, <<"b">>)
cNoCoin == Card(FALSE, <<"1", "k">>, <<AltA>>, <<>>)
cNoName == Card(TRUE, <<"1", "k">>, <<AltCoin>>, <<>>)
cExtinct == Card(TRUE, <<"E", "x", "t", "i", "n", "c", "t">>, <<AltA>>, <<>>)

CardPool == {cA1, cA2, cZ1, cZ0, cB12, cNoCoin, cNoName, cExtinct}

\* a page without cards, and a page with a card twice, a name at two prices,
\* two names at one price and a card without a price
PageNone == <<>>
PageFull == <<cZ1, cA1, cA1, cA2, cZ0>>

\* get_html (lines 56-61) returns the markup, or raises
Served(h) == [ok |-> TRUE, html |-> h]
Fails == [ok |-> FALSE, html |-> <<>>]

(***************************************************************************)
(* scrape_futgg_for_rating                                                 *)
(***************************************************************************)
\* line 129: x for x in page_items if x["price"] > 0
Positive(items) == SelectSeq(items, LAMBDA x : x.price > 0)

\* variant of line 130 that stops only above min_needed
MoreThanNeeded(acc, mn) == Len(acc) > mn

\* line 130
EnoughItems(acc, mn) == Len(acc) >= mn

\* The loop of lines 127-131 from page pg on, w[pg] being what get_html does
\* on page pg.  st holds all_items, and as history the fetches issued and the
\* lists scrape_futgg_one_page returned.
RECURSIVE ForRatingLoop(_, _, _, _, _, _)
ForRatingLoop(w, r, mp, mn, pg, st) ==
    IF pg > mp THEN st
    ELSE IF ~w[pg].ok
    THEN [st EXCEPT !.raised = TRUE,
                    !.fetched = Append(st.fetched, [rating |-> r, page |-> pg])]
    ELSE Only({ IF EnoughItems(next.items, mn) THEN next
                ELSE ForRatingLoop(w, r, mp, mn, pg + 1, next) :
                next \in { [st EXCEPT
                              !.items = st.items \o Positive(items),
                              !.fetched = Append(st.fetched, [rating |-> r, page |-> pg]),
                              !.pages = Append(st.pages, items)] :
                           items \in {scrape_futgg_one_page(w[pg].html)} } })

\* lines 125-134: [raised |-> the call raised, items |-> the list returned]
scrape_futgg_for_rating(w, r, mp, mn) ==
    Only({ IF st.raised THEN [st EXCEPT !.items = <<>>]
           ELSE [st EXCEPT !.items = SortByPrice(st.items)] :
           st \in { ForRatingLoop(w, r, mp, mn, 1,
                        [raised |-> FALSE, items |-> <<>>,
                         fetched |-> <<>>, pages |-> <<>>]) } })

NoAggRet == [raised |-> FALSE, items |-> <<>>, fetched |-> <<>>, pages |-> <<>>]

(***************************************************************************)
(* scrape_many                                                             *)
(***************************************************************************)
\* data[str(r)] = v
DictSet(d, r, v) ==
    [k \in DOMAIN d \cup {ToString(r)} |-> IF k = ToString(r) THEN v ELSE d[k]]

\* line 140
StoreResult(d, r, items) == DictSet(d, r, items)

\* variant of lines 141-143 that stores nothing for a rating that raised
StoreNothing(d, r) == d

\* lines 141-143
StoreEmpty(d, r) == DictSet(d, r, <<>>)

\* lines 136-144, ws[k] being the world of the k-th call:
\* [data |-> the dict returned, calls |-> what each call did]
RECURSIVE scrape_many(_, _)
scrape_many(ratings, ws) ==
    IF ratings = <<>> THEN [data |-> <<>>, calls |-> <<>>]
    ELSE
      LET n == Len(ratings)
      IN  Only({ [data |-> IF call.raised THEN StoreEmpty(before.data, ratings[n])
                           ELSE StoreResult(before.data, ratings[n], call.items),
                  calls |-> Append(before.calls, call)] :
                 before \in {scrape_many(SubSeq(ratings, 1, n - 1), SubSeq(ws, 1, n - 1))},
                 call \in {scrape_futgg_for_rating(ws[n], ratings[n],
                               DEFAULT_MAX_PAGES, DEFAULT_MIN_NEEDED)} })

NoManyRet == [data |-> <<>>, calls |-> <<>>]

\* the fetches of a sequence of calls, in order
RECURSIVE FetchesOf(_)
FetchesOf(calls) ==
    IF calls = <<>> THEN <<>>
    ELSE FetchesOf(SubSeq(calls, 1, Len(calls) - 1)) \o calls[Len(calls)].fetched

Range(s) == {s[k] : k \in DOMAIN s}

\* the records of the lists that scrape_futgg_one_page, scrape_futgg_for_rating
\* and scrape_many returned in the course of calls that ended in m
ReturnedBy(m) ==
    UNION ( {Range(m.data[k]) : k \in DOMAIN m.data}
            \cup {Range(c.items) : c \in Range(m.calls)}
            \cup {UNION {Range(pg) : pg \in Range(c.pages)} : c \in Range(m.calls)} )

(***************************************************************************)
(* players_flat                                                            *)
(***************************************************************************)
\* variant of line 176 that rejects only a missing key
UnauthorizedIfMissing(f, k) == f = 1 /\ k = None

\* line 176
Unauthorized(f, k) == f = 1 /\ k # APP_TOKEN

\* variant of line 181 in which the cache never ages
NeverStale(t, ts) == FALSE

\* line 181
Stale(t, ts) == (t - ts) > MAX_AGE_SECONDS

\* line 182
HaveAll(d, w) ==
    \A k \in 1..Len(w) : ToString(w[k]) \in DOMAIN d /\ d[ToString(w[k])] # <<>>

\* line 184
NeedsRefresh(f, t, w) == f = 1 \/ Stale(t, CACHE.ts) \/ ~HaveAll(CACHE.data, w)

\* variant of line 185 that replaces the dict
CacheReplace(old, new) == new

\* line 185: dict.update
CacheUpdate(old, new) == new @@ old

\* lines 189-191
Annotate(bucket, r) ==
    [k \in 1..Len(bucket) |->
        [name |-> bucket[k].name, price |-> bucket[k].price, rating |-> r]]

RECURSIVE Flatten(_, _)
Flatten(d, w) ==
    IF w = <<>> THEN <<>>
    ELSE LET r == w[Len(w)]
             bucket == IF ToString(r) \in DOMAIN d THEN d[ToString(r)] ELSE <<>>
         IN  Flatten(d, SubSeq(w, 1, Len(w) - 1)) \o Annotate(bucket, r)

\* str < str: by code points, a proper prefix first
RECURSIVE StrLess(_, _)
StrLess(a, b) ==
    IF b = <<>> THEN FALSE
    ELSE IF a = <<>> THEN TRUE
    ELSE IF Head(a) # Head(b) THEN Ord(Head(a)) < Ord(Head(b))
    ELSE StrLess(Tail(a), Tail(b))

\* variant of the key of line 192 with the rating ascending
FlatBeforeRatingAsc(a, b) ==
    \/ a.price < b.price
    \/ a.price = b.price /\ a.rating < b.rating
    \/ a.price = b.price /\ a.rating = b.rating /\ StrLess(a.name, b.name)

\* line 192: key=lambda x: (x["price"], -x["rating"], x["name"])
FlatBefore(a, b) ==
    \/ a.price < b.price
    \/ a.price = b.price /\ -a.rating < -b.rating
    \/ a.price = b.price /\ a.rating = b.rating /\ StrLess(a.name, b.name)

RECURSIVE SortFlat(_)
SortFlat(s) ==
    IF s = <<>> THEN <<>>
    ELSE Only({ InsertBefore(sorted, s[Len(s)],
                             {k \in 1..Len(sorted) : FlatBefore(s[Len(s)], sorted[k])}) :
                sorted \in {SortFlat(SubSeq(s, 1, Len(s) - 1))} })

\* lines 188-193
FlatResponse(d, w) ==
    Only({ [status |-> 200, body |-> SortFlat(flat)] : flat \in {Flatten(d, w)} })

(***************************************************************************)
(* Bounds of the model                                                     *)
(***************************************************************************)
MaxTicks == 4         \* the clock time the model follows, in half max-ages
MaxWant == 2          \* the longest list of ratings given to scrape_many
MaxCards == 3         \* the most cards on a page given to the page extractor
MaxPagesArg == 3      \* the largest max_pages given to the aggregator
MaxMinNeeded == 4     \* the largest min_needed given to the aggregator
MaxGroups == 1        \* the most ,ddd groups of a grouped-thousands token

(***************************************************************************)
(* The server: one request at a time (section 5 of the specification)      *)
(***************************************************************************)
\* the clock at the first request is later than MAX_AGE_SECONDS after the
\* epoch, as time.time() is, so that CACHE["ts"] = 0 is stale
StartTime == 5 * MAX_AGE_SECONDS
HalfAge == MAX_AGE_SECONDS \div 2
MaxNow == StartTime + MaxTicks * HalfAge
\* the time between two requests
Delays == {HalfAge, MAX_AGE_SECONDS}

Ratings == {84, 85}
\* what parse_ratings gives for "", "84", "85", "84-85", "85,84" and "84,84"
WantLists == { <<>>, <<84>>, <<85>>, <<84, 85>>, <<85, 84>>, <<84, 84>> }
Forces == {0, 1}
Keys == {None, "wrong", APP_TOKEN}

\* what get_html does on the pages of one rating during a request
WorldEmpty == <<Served(PageNone), Served(PageNone), Served(PageNone)>>
WorldTwice == <<Served(PageFull), Served(PageFull), Served(PageNone)>>
WorldDown == <<Served(PageFull), Fails, Fails>>
MainWorlds == {WorldEmpty, WorldTwice, WorldDown}

\* scrape_many(w, ws) for every request and every behaviour of the source,
\* computed once
Scraped ==
    UNION { { [ratings |-> w, ret |-> scrape_many(w, ws)] :
                ws \in [1..Len(w) -> MainWorlds] } : w \in WantLists }

\* a request arrives d seconds after the one before
Arrives(f, k, d) ==
    /\ pc = "idle"
    /\ now + d <= MaxNow
    /\ now' = now + d
    /\ force' = f
    /\ x_api_key' = k

\* lines 176-177: want is not computed
PlayersFlatRejected ==
    \E f \in Forces, k \in Keys, d \in Delays :
        /\ Arrives(f, k, d)
        /\ Unauthorized(f, k)
        /\ want' = <<>>
        /\ resp' = [status |-> 401, body |-> <<>>]
        /\ fetched' = <<>>
        /\ seen' = {}
        /\ UNCHANGED <<CACHE, scrapedAt, pc, aggVars, manyVars, pageVars, parseVars>>

\* lines 176-193, the branch of line 184 not taken
PlayersFlatCached ==
    \E w \in WantLists, f \in Forces, k \in Keys, d \in Delays :
        /\ Arrives(f, k, d)
        /\ ~Unauthorized(f, k)
        /\ ~NeedsRefresh(f, now + d, w)
        /\ want' = w
        /\ resp' = FlatResponse(CACHE.data, w)
        /\ fetched' = <<>>
        /\ seen' = {}
        /\ UNCHANGED <<CACHE, scrapedAt, pc, aggVars, manyVars, pageVars, parseVars>>

\* lines 176-193, the branch of line 184 taken
PlayersFlatRefreshed ==
    \E w \in WantLists, f \in Forces, k \in Keys, d \in Delays :
        /\ Arrives(f, k, d)
        /\ ~Unauthorized(f, k)
        /\ NeedsRefresh(f, now + d, w)
        /\ want' = w
        /\ \E run \in Scraped :
             LET m == run.ret
             IN  /\ run.ratings = w
                 /\ CACHE' = [ts |-> now + d, data |-> CacheUpdate(CACHE.data, m.data)]
                 /\ scrapedAt' = [key \in DOMAIN m.data |-> now + d] @@ scrapedAt
                 /\ fetched' = FetchesOf(m.calls)
                 /\ seen' = ReturnedBy(m)
        /\ resp' = FlatResponse(CACHE'.data, w)
        /\ UNCHANGED <<pc, aggVars, manyVars, pageVars, parseVars>>

\* nothing called yet
NoAgg ==
    /\ rating = 0
    /\ max_pages = 0
    /\ min_needed = 0
    /\ world = <<>>
    /\ agg_ret = NoAggRet

NoMany == worlds = <<>> /\ many_ret = NoManyRet
NoPage == html = <<>> /\ page_items = <<>>
NoParse == txt = <<>> /\ price_val = 0

NoServer ==
    /\ CACHE = [ts |-> 0, data |-> <<>>]
    /\ now = StartTime
    /\ scrapedAt = <<>>
    /\ force = 0
    /\ x_api_key = None
    /\ resp = [status |-> 0, body |-> <<>>]
    /\ fetched = <<>>
    /\ seen = {}

Init ==
    /\ pc = "idle"
    /\ want = <<>>
    /\ NoServer /\ NoAgg /\ NoMany /\ NoPage /\ NoParse

Next ==
    \/ PlayersFlatRejected
    \/ PlayersFlatCached
    \/ PlayersFlatRefreshed

Spec == Init /\ [][Next]_vars

(***************************************************************************)
(* Direct calls of the functions, on inputs drawn from bounded sets        *)
(***************************************************************************)
\* parse_price_token -------------------------------------------------------
TokenDigits == {"0", "1", "2", "5"}

\* a token of n digits
DigitStrings(n) == [1..n -> TokenDigits]

\* the groups tried in every place but the last
InnerGroups == { <<"0", "0", "0">>, <<"5", "0", "0">> }

\* ,ddd repeated g times: any three digits in the last group
RECURSIVE GroupStrings(_)
GroupStrings(g) ==
    IF g = 0 THEN {<<>>}
    ELSE {<<",">> \o a \o b :
            a \in IF g = 1 THEN DigitStrings(3) ELSE InnerGroups,
            b \in GroupStrings(g - 1)}

\* 1 to 3 digits, then 1 to MaxGroups groups of a comma and 3 digits
GroupedTokens ==
    UNION { {a \o b : a \in DigitStrings(n), b \in GroupStrings(g)} :
              n \in 1..3, g \in 1..MaxGroups }

\* the examples of the specification, and tokens around them
ExampleTokens ==
    { <<>>, <<" ">>, <<"1", "2", "k">>, <<"1", ".", "2", "m">>,
      <<"4", ".", "4", "K">>, <<" ", "1", " ", "k", " ">>,
      <<"E", "x", "t", "i", "n", "c", "t">>, <<"N", "/", "A">>, <<"-">>,
      <<EmDash>>, <<"-", "5">>, <<"5", "0", "0">>, <<"1", "2", ".", "5">>,
      <<"1", "3", ".", "5">>, <<"x">>,
      <<"1", ",", "2", "3", "4", ",", "5", "6", "7">> }

PriceTokens == GroupedTokens \cup ExampleTokens

InitPrice ==
    /\ pc = "call"
    /\ want = <<>>
    /\ txt \in PriceTokens
    /\ price_val = 0
    /\ NoServer /\ NoAgg /\ NoMany /\ NoPage

ParsePriceToken ==
    /\ pc = "call"
    /\ price_val' = parse_price_token(txt)
    /\ pc' = "returned"
    /\ UNCHANGED <<serverVars, want, aggVars, manyVars, pageVars, txt>>

SpecPrice == InitPrice /\ [][ParsePriceToken]_vars

\* scrape_futgg_one_page ---------------------------------------------------
\* every page of at most MaxCards cards of the pool
Markups == UNION {[1..n -> CardPool] : n \in 0..MaxCards}

InitPage ==
    /\ pc = "call"
    /\ want = <<>>
    /\ html \in Markups
    /\ page_items = <<>>
    /\ NoServer /\ NoAgg /\ NoMany /\ NoParse

ScrapeOnePage ==
    /\ pc = "call"
    /\ page_items' = scrape_futgg_one_page(html)
    /\ pc' = "returned"
    /\ UNCHANGED <<serverVars, want, aggVars, manyVars, html, parseVars>>

SpecPage == InitPage /\ [][ScrapeOnePage]_vars

\* scrape_futgg_for_rating -------------------------------------------------
AggOutcomes == {Fails, Served(PageNone), Served(PageFull), Served(<<cA1>>)}

InitAgg ==
    /\ pc = "call"
    /\ want = <<>>
    /\ rating \in Ratings
    /\ max_pages \in 0..MaxPagesArg
    /\ min_needed \in 0..MaxMinNeeded
    /\ world \in [1..MaxPagesArg -> AggOutcomes]
    /\ agg_ret = NoAggRet
    /\ NoServer /\ NoMany /\ NoPage /\ NoParse

ScrapeForRating ==
    /\ pc = "call"
    /\ agg_ret' = scrape_futgg_for_rating(world, rating, max_pages, min_needed)
    /\ pc' = "returned"
    /\ UNCHANGED <<serverVars, want, rating, max_pages, min_needed, world,
                   manyVars, pageVars, parseVars>>

SpecAgg == InitAgg /\ [][ScrapeForRating]_vars

\* scrape_many -------------------------------------------------------------
WorldOnce == <<Served(PageFull), Served(PageNone), Served(PageNone)>>
WorldLate == <<Served(<<cA1>>), Served(PageNone), Fails>>
ManyWorlds == MainWorlds \cup {WorldOnce, WorldLate}

InitMany ==
    /\ pc = "call"
    /\ want \in UNION {[1..n -> Ratings] : n \in 0..MaxWant}
    /\ worlds \in [1..Len(want) -> ManyWorlds]
    /\ many_ret = NoManyRet
    /\ NoServer /\ NoAgg /\ NoPage /\ NoParse

ScrapeMany ==
    /\ pc = "call"
    /\ many_ret' = scrape_many(want, worlds)
    /\ pc' = "returned"
    /\ UNCHANGED <<serverVars, want, aggVars, worlds, pageVars, parseVars>>

SpecMany == InitMany /\ [][ScrapeMany]_vars

(***************************************************************************)
(* Properties                                                              *)
(***************************************************************************)
\* the number of records that pages 1..n of world w hand to the aggregator
RECURSIVE HeldAfter(_, _)
HeldAfter(w, n) ==
    IF n = 0 THEN 0
    ELSE HeldAfter(w, n - 1)
         + Cardinality({k \in 1..Len(w[n].html) :
                          /\ CardAccepted(w[n].html[k])
                          /\ \A j \in 1..(k - 1) :
                               ~CardAccepted(w[n].html[j])
                               \/ CardItem(w[n].html[j]) # CardItem(w[n].html[k])})

\* C1: a call of scrape_futgg_for_rating fetches at most max_pages pages, they
\* are pages 1, 2, ... of the rating asked for, in order, and a page after the
\* first is fetched only while the positive-price records collected from the
\* pages before it number fewer than min_needed.
C1_FetchesBounded ==
    pc = "returned" =>
        /\ Len(agg_ret.fetched) <= max_pages
        /\ \A k \in 1..Len(agg_ret.fetched) :
             agg_ret.fetched[k] = [rating |-> rating, page |-> k]
        /\ \A k \in 2..Len(agg_ret.fetched) : HeldAfter(world, k - 1) < min_needed

\* a call that stopped early, after its second page, with min_needed reached
C1_StoppedEarly ==
    /\ pc = "returned"
    /\ ~agg_ret.raised
    /\ Len(agg_ret.fetched) = 2
    /\ max_pages > 2
    /\ HeldAfter(world, 1) < min_needed
    /\ HeldAfter(world, 2) >= min_needed

\* the last call made for the rating at position k of the list
LastCallFor(k) ==
    CHOOSE j \in k..Len(want) :
        want[j] = want[k] /\ \A i \in (j + 1)..Len(want) : want[i] # want[k]

\* C2: scrape_many returns a dict with exactly one key per requested rating;
\* a rating whose aggregation raised is mapped to the empty list, every other
\* rating to the list its aggregation returned, whatever happened to the
\* ratings before it; every requested rating is attempted.
C2_FailureIsolated ==
    pc = "returned" =>
        /\ DOMAIN many_ret.data = {ToString(want[k]) : k \in 1..Len(want)}
        /\ Len(many_ret.calls) = Len(want)
        /\ \A k \in 1..Len(want) :
             LET own == scrape_futgg_for_rating(worlds[LastCallFor(k)], want[k],
                                                DEFAULT_MAX_PAGES, DEFAULT_MIN_NEEDED)
             IN  many_ret.data[ToString(want[k])]
                   = IF own.raised THEN <<>> ELSE own.items

\* the first rating raised and the second one still got its records
C2_RaisedThenServed ==
    /\ pc = "returned"
    /\ Len(want) = 2
    /\ want[1] # want[2]
    /\ many_ret.calls[1].raised
    /\ many_ret.data[ToString(want[1])] = <<>>
    /\ many_ret.data[ToString(want[2])] # <<>>

\* the first card of the markup that yields the record rec
FirstCardOf(rec) ==
    CHOOSE k \in 1..Len(html) :
        /\ CardAccepted(html[k]) /\ CardItem(html[k]) = rec
        /\ \A j \in 1..(k - 1) : ~(CardAccepted(html[j]) /\ CardItem(html[j]) = rec)

\* C6: the list scrape_futgg_one_page returns is in ascending price order,
\* holds no (name, price) pair twice, holds exactly the pairs of the accepted
\* cards, and keeps records of equal price in the order of their first cards.
C6_PageSortedUnique ==
    pc = "returned" =>
        /\ \A k \in 1..(Len(page_items) - 1) :
             page_items[k].price <= page_items[k + 1].price
        /\ \A j, k \in 1..Len(page_items) :
             j # k => page_items[j] # page_items[k]
        /\ Range(page_items)
             = {CardItem(html[k]) : k \in {n \in 1..Len(html) : CardAccepted(html[n])}}
        /\ \A j, k \in 1..Len(page_items) :
             (j < k /\ page_items[j].price = page_items[k].price)
                => FirstCardOf(page_items[j]) < FirstCardOf(page_items[k])

\* a page with a repeated card and two players at the same price
C6_TieAndDuplicate ==
    /\ pc = "returned"
    /\ Len(page_items) = 2
    /\ page_items[1].price = page_items[2].price
    /\ page_items[1].name # page_items[2].name
    /\ Cardinality({n \in 1..Len(html) : CardAccepted(html[n])}) > 2

\* the digits of a token, as a number
DigitsOnly(s) == DigitsToInt(SelectSeq(s, LAMBDA c : c \in Digits))

\* C9: parse_price_token returns, for a number with thousands separators
\* (12,500), the integer the digits spell with the commas removed (12500).
C9_GroupedThousands ==
    (pc = "returned" /\ txt \in GroupedTokens) => price_val = DigitsOnly(txt)

\* a read of players_flat has returned a list
ReadReturned == pc = "idle" /\ resp.status = 200

RequestedKeys(w) == {ToString(w[k]) : k \in 1..Len(w)}

\* a players_flat request is handled in this step
RequestStep == pc = "idle" /\ now' # now

\* C3 as stated: when a read returns, every requested rating has a bucket, and
\* no requested bucket was last scraped more than MAX_AGE_SECONDS before now.
C3_NoRequestedBucketOld ==
    ReadReturned =>
        \A key \in RequestedKeys(want) :
            /\ key \in DOMAIN CACHE.data
            /\ now - scrapedAt[key] <= MAX_AGE_SECONDS

\* C3: when a read returns, every requested rating has a bucket and the last
\* refresh of the cache as a whole is at most MAX_AGE_SECONDS before now; a
\* read that refreshes scrapes every requested rating.  The age is that of
\* CACHE["ts"], which any refresh renews, so a requested bucket itself may
\* hold contents scraped longer ago.
C3_CacheWideAge ==
    ReadReturned =>
        /\ now - CACHE.ts <= MAX_AGE_SECONDS
        /\ \A key \in RequestedKeys(want) :
             /\ key \in DOMAIN CACHE.data
             /\ CACHE.ts = now => scrapedAt[key] = now

\* a read served a bucket scraped more than MAX_AGE_SECONDS ago, the cache
\* having been refreshed for another rating since
C3_OldBucketServed ==
    /\ ReadReturned
    /\ fetched = <<>>
    /\ now - CACHE.ts <= MAX_AGE_SECONDS
    /\ \E key \in RequestedKeys(want) :
         /\ key \in DOMAIN CACHE.data
         /\ CACHE.data[key] # <<>>
         /\ now - scrapedAt[key] > MAX_AGE_SECONDS

\* C4: no bucket of the cache, no list returned by scrape_futgg_one_page,
\* scrape_futgg_for_rating or scrape_many, and no body returned by
\* players_flat holds a record whose price is not positive.
C4_PricesPositive ==
    /\ \A key \in DOMAIN CACHE.data :
         \A k \in 1..Len(CACHE.data[key]) : CACHE.data[key][k].price > 0
    /\ \A k \in 1..Len(resp.body) : resp.body[k].price > 0
    /\ \A rec \in seen : rec.price > 0

\* a refresh in which a fetch failed, after pages with a card priced 0 were
\* scraped, has stored and returned records
C4_StoredAfterFailure ==
    /\ ReadReturned
    /\ resp.body # <<>>
    /\ seen # {}
    /\ \E k \in 1..Len(fetched) : fetched[k].page = 2
    /\ \E key \in RequestedKeys(want) : CACHE.data[key] # <<>>
    /\ Len(fetched) < DEFAULT_MAX_PAGES * Len(want)

\* the number of times rec occurs in the list
Occurrences(list, rec) == Cardinality({k \in 1..Len(list) : list[k] = rec})

\* C5 as stated: no bucket of the cache holds two records with the same name.
C5_UniqueByName ==
    \A key \in DOMAIN CACHE.data :
        \A j, k \in 1..Len(CACHE.data[key]) :
            j # k => CACHE.data[key][j].name # CACHE.data[key][k].name

\* C5: a bucket of the cache holds a (name, price) pair at most once for each
\* page scraped for it, so at most DEFAULT_MAX_PAGES times; a name may occur
\* with several prices, and a pair may recur from page to page.
C5_UniquePerPage ==
    \A key \in DOMAIN CACHE.data :
        \A rec \in Range(CACHE.data[key]) :
            Occurrences(CACHE.data[key], rec) <= DEFAULT_MAX_PAGES

\* a bucket holds one player at two prices, and one record twice
C5_NameTwice ==
    \E key \in DOMAIN CACHE.data :
        LET bucket == CACHE.data[key]
        IN  /\ \E j, k \in 1..Len(bucket) :
                 bucket[j].name = bucket[k].name /\ bucket[j].price # bucket[k].price
            /\ \E rec \in Range(bucket) : Occurrences(bucket, rec) = 2

\* C7: a request with force = 1 and a key that is missing or differs from
\* APP_TOKEN is answered 401, fetches nothing and leaves CACHE["ts"] and
\* CACHE["data"] as they were; a forced request that fetched or answered 200
\* carried APP_TOKEN.
C7_ForceNeedsToken ==
    /\ [][ (RequestStep /\ force' = 1 /\ x_api_key' # APP_TOKEN)
             => /\ resp'.status = 401
                /\ fetched' = <<>>
                /\ CACHE' = CACHE
                /\ scrapedAt' = scrapedAt ]_vars
    /\ []( (force = 1 /\ (fetched # <<>> \/ resp.status = 200))
             => x_api_key = APP_TOKEN )

\* a forced request with a wrong key was rejected while the cache held records
C7_RejectedWithCache ==
    /\ pc = "idle"
    /\ force = 1
    /\ x_api_key = "wrong"
    /\ resp.status = 401
    /\ fetched = <<>>
    /\ \E key \in DOMAIN CACHE.data : CACHE.data[key] # <<>>

\* the bucket of rating r, empty when the cache has none
BucketOf(r) ==
    IF ToString(r) \in DOMAIN CACHE.data THEN CACHE.data[ToString(r)] ELSE <<>>

\* how many times the requested buckets hold the record rec for its rating
RECURSIVE Requested(_, _)
Requested(w, rec) ==
    IF w = <<>> THEN 0
    ELSE Requested(Tail(w), rec)
         + IF Head(w) = rec.rating
           THEN Occurrences(BucketOf(Head(w)), [name |-> rec.name, price |-> rec.price])
           ELSE 0

RECURSIVE TotalLen(_)
TotalLen(w) == IF w = <<>> THEN 0 ELSE Len(BucketOf(Head(w))) + TotalLen(Tail(w))

\* C8: the body players_flat returns holds exactly the records of the
\* requested buckets, each with its rating, ordered by price ascending, then
\* rating descending, then name ascending.
C8_FlatSorted ==
    ReadReturned =>
        /\ Len(resp.body) = TotalLen(want)
        /\ \A rec \in Range(resp.body) :
             Occurrences(resp.body, rec) = Requested(want, rec)
        /\ \A k \in 1..(Len(resp.body) - 1) :
             LET a == resp.body[k]
                 b == resp.body[k + 1]
             IN  \/ a.price < b.price
                 \/ a.price = b.price /\ a.rating > b.rating
                 \/ a.price = b.price /\ a.rating = b.rating
                      /\ ~StrLess(b.name, a.name)

\* at equal price a record of the higher rating precedes one of the lower
\* rating whose name sorts first, and at equal price and rating the names ascend
C8_TieByRating ==
    /\ ReadReturned
    /\ \E k \in 1..(Len(resp.body) - 1) :
         /\ resp.body[k].price = resp.body[k + 1].price
         /\ resp.body[k].rating > resp.body[k + 1].rating
         /\ StrLess(resp.body[k + 1].name, resp.body[k].name)
    /\ \E k \in 1..(Len(resp.body) - 1) :
         /\ resp.body[k].price = resp.body[k + 1].price
         /\ resp.body[k].rating = resp.body[k + 1].rating
         /\ StrLess(resp.body[k].name, resp.body[k + 1].name)

\* C10: a request with force other than 1, made while the cache is at most
\* MAX_AGE_SECONDS old and holds a non-empty bucket for every requested
\* rating, fetches nothing and leaves CACHE["ts"] and CACHE["data"] as they
\* were; and no request changes or removes the bucket of a rating it did not
\* request.
C10_CacheHitFrame ==
    /\ [][ ( /\ RequestStep
             /\ force' # 1
             /\ now' - CACHE.ts <= MAX_AGE_SECONDS
             /\ \A key \in RequestedKeys(want') :
                  key \in DOMAIN CACHE.data /\ CACHE.data[key] # <<>> )
             => /\ fetched' = <<>>
                /\ CACHE' = CACHE
                /\ scrapedAt' = scrapedAt ]_vars
    /\ [][ \A key \in DOMAIN CACHE.data :
             key \notin RequestedKeys(want')
               => key \in DOMAIN CACHE'.data /\ CACHE'.data[key] = CACHE.data[key] ]_vars

\* a read served from the cache, and before it a refresh for another rating
\* that left the bucket read here as it was
C10_ServedFromCache ==
    /\ ReadReturned
    /\ force = 0
    /\ want # <<>>
    /\ fetched = <<>>
    /\ resp.body # <<>>
    /\ CACHE.ts < now
    /\ \E key \in RequestedKeys(want) : scrapedAt[key] < CACHE.ts

====
